---- MODULE Spec2Model ----
(***************************************************************************)
(* RegexBooster (rankers/regex_booster.py): a ranker component that is     *)
(* built from a mapping pattern-string -> boost, and whose run() multiplies *)
(* the score of every document whose content a pattern matches and returns *)
(* the documents sorted by descending score.                               *)
(*                                                                         *)
(* Document objects live in `heap` (object id -> fields); the list the     *)
(* caller passes to run() is a sequence of object ids, so that the same    *)
(* object may occur more than once and in-place updates are visible to the *)
(* caller after run() has returned or raised.                              *)
(*                                                                         *)
(* Numbers are exact rationals <<n, d>> with d > 0 in lowest terms.  All   *)
(* the values used below are dyadic, so that the products are the ones     *)
(* Python's binary floats produce, without rounding.                       *)
(***************************************************************************)
EXTENDS Integers, Sequences, FiniteSets, TLC

VARIABLES comp, arg, regex_boosts, fed, heap, documents,
          orig, before, result, outcome, runs

vars == <<comp, arg, regex_boosts, fed, heap, documents,
          orig, before, result, outcome, runs>>

\* Longest list of documents the upstream component hands over.
MaxDocs == 2

\* Number of run() invocations on the same documents that are explored.
MaxRuns == 2

----------------------------------------------------------------------------
\* Optional values: None, or Some(x).

None == <<>>

Some(x) == <<x>>

----------------------------------------------------------------------------
\* Rational arithmetic.

Abs(n) == IF n < 0 THEN -n ELSE n

RECURSIVE GCD(_, _)
GCD(a, b) == IF b = 0 THEN a ELSE GCD(b, a % b)

Rat(n, d) ==
    LET g == GCD(Abs(n), d)
    IN  <<n \div g, d \div g>>

Zero == <<0, 1>>

One == <<1, 1>>

Mul(a, b) == Rat(a[1] * b[1], a[2] * b[2])

Less(a, b) == a[1] * b[2] < b[1] * a[2]

----------------------------------------------------------------------------
\* Regular expressions: literal patterns over a small alphabet; "(" opens a
\* group, and a group that is never closed is a syntax error.

Lower(c) ==
    CASE c = "A" -> "a"
      [] c = "B" -> "b"
      [] OTHER   -> c

\* re.compile raises re.error on a pattern it cannot parse.
Compiles(k) == \A i \in 1..Len(k) : k[i] # "("

re_compile(k, ignorecase) == [pattern |-> k, ignorecase |-> ignorecase]

CharEq(regex, p, c) ==
    IF regex.ignorecase THEN Lower(p) = Lower(c) ELSE p = c

\* regex.search(content): the pattern matches anywhere within the content.
search(regex, text) ==
    \E off \in 0..Len(text) :
        /\ off + Len(regex.pattern) <= Len(text)
        /\ \A i \in 1..Len(regex.pattern) :
              CharEq(regex, regex.pattern[i], text[off + i])

----------------------------------------------------------------------------
\* The values the environment supplies.

PatternStrings == { <<"a">>, <<"B">>, <<"(">> }

Boosts == { <<-1, 1>>, <<0, 1>>, <<1, 2>>, <<1, 1>>, <<2, 1>> }

Items == [k : PatternStrings, v : Boosts]

\* A dict: items in insertion order, no key twice.
Mappings ==
    UNION { { m \in [1..n -> Items] :
                \A i, j \in 1..n : i < j => m[i].k # m[j].k } :
            n \in 0..Cardinality(PatternStrings) }

Contents == { None, Some(<<"A">>), Some(<<"a", "b">>) }

Scores == { None, Some(<<-1, 1>>), Some(Zero), Some(One) }

Document == [content : Contents, score : Scores]

Max(S) == CHOOSE x \in S : \A y \in S : y <= x

\* Number of distinct objects a list of object ids refers to, the ids being
\* handed out in order of first occurrence.
NObj(l) == Max({0} \cup { l[i] : i \in DOMAIN l })

DocLists(n) ==
    { l \in [1..n -> 1..n] :
        \A i \in 1..n : l[i] <= 1 + Max({0} \cup { l[j] : j \in 1..(i - 1) }) }

----------------------------------------------------------------------------
\* RegexBooster.run, lines 62-65: the boosting loops.  st is the heap and
\* whether a TypeError has propagated out of the loops.

\* Variant: a document without a score is boosted as if its score were 0.
BodyAbsentAsZero(st, rule, o) ==
    LET doc == st.heap[o]
        score == IF doc.score = None THEN Zero ELSE doc.score[1]
    IN  IF doc.content = None THEN [st EXCEPT !.raised = TRUE]
        ELSE IF search(rule.regex, doc.content[1])
             THEN [st EXCEPT !.heap[o].score = Some(Mul(score, rule.boost))]
             ELSE st

\* Variant: every document that has a score is boosted, matched or not.
BodyBoostAll(st, rule, o) ==
    LET doc == st.heap[o]
    IN  IF doc.score = None THEN st
        ELSE IF doc.content = None THEN [st EXCEPT !.raised = TRUE]
        ELSE [st EXCEPT !.heap[o].score = Some(Mul(doc.score[1], rule.boost))]

\* Variant: the boost is added to the score (+= for *=).
BodyAdd(st, rule, o) ==
    LET doc == st.heap[o]
        sum(a, b) == Rat(a[1] * b[2] + b[1] * a[2], a[2] * b[2])
    IN  IF doc.score = None THEN st
        ELSE IF doc.content = None THEN [st EXCEPT !.raised = TRUE]
        ELSE IF search(rule.regex, doc.content[1])
             THEN [st EXCEPT !.heap[o].score = Some(sum(doc.score[1], rule.boost))]
             ELSE st

Body(st, rule, o) ==
    LET doc == st.heap[o]
    IN  IF doc.score = None THEN st
        ELSE IF doc.content = None THEN [st EXCEPT !.raised = TRUE]
        ELSE IF search(rule.regex, doc.content[1])
             THEN [st EXCEPT !.heap[o].score = Some(Mul(doc.score[1], rule.boost))]
             ELSE st

RECURSIVE ForDocs(_, _, _, _)
ForDocs(st, rule, docs, j) ==
    IF st.raised \/ j > Len(docs) THEN st
    ELSE ForDocs(Body(st, rule, docs[j]), rule, docs, j + 1)

RECURSIVE ForRules(_, _, _, _)
ForRules(st, rules, docs, i) ==
    IF st.raised \/ i > Len(rules) THEN st
    ELSE ForRules(ForDocs(st, rules[i], docs, 1), rules, docs, i + 1)

\* RegexBooster.run, line 67: key=lambda x: x.score or 0.
Key(doc) ==
    IF doc.score = None \/ doc.score = Some(Zero) THEN Zero ELSE doc.score[1]

\* Variant: x goes in front of the elements whose key equals its own.
RECURSIVE InsertBeforeTies(_, _, _)
InsertBeforeTies(acc, x, h) ==
    IF acc = <<>> THEN <<x>>
    ELSE IF ~Less(Key(h[x]), Key(h[Head(acc)])) THEN <<x>> \o acc
    ELSE <<Head(acc)>> \o InsertBeforeTies(Tail(acc), x, h)

\* Insertion of x into a list that is sorted by descending key: x goes
\* behind every element whose key is not smaller than its own.
RECURSIVE Insert(_, _, _)
Insert(acc, x, h) ==
    IF acc = <<>> THEN <<x>>
    ELSE IF Less(Key(h[Head(acc)]), Key(h[x])) THEN <<x>> \o acc
    ELSE <<Head(acc)>> \o Insert(Tail(acc), x, h)

\* sorted(documents, key=..., reverse=True): a new list, the input untouched.
RECURSIVE SortFrom(_, _, _, _)
SortFrom(acc, l, h, i) ==
    IF i > Len(l) THEN acc ELSE SortFrom(Insert(acc, l[i], h), l, h, i + 1)

\* Variant: the documents without a score are left out of the output.
sortedScoredOnly(l, h) ==
    SortFrom(<<>>, SelectSeq(l, LAMBDA o : h[o].score # None), h, 1)

sorted(l, h) == SortFrom(<<>>, l, h, 1)

----------------------------------------------------------------------------
Init ==
    /\ comp = "none"
    /\ arg = <<>>
    /\ regex_boosts = <<>>
    /\ fed = FALSE
    /\ heap = <<>>
    /\ documents = <<>>
    /\ orig = <<>>
    /\ before = <<>>
    /\ result = <<>>
    /\ outcome = "none"
    /\ runs = 0

\* Variant: a key that does not compile is skipped instead of raising.
ConstructSkipInvalid(mapping) ==
    /\ arg' = mapping
    /\ comp' = "ready"
    /\ regex_boosts' =
         LET valid == SelectSeq(mapping, LAMBDA item : Compiles(item.k))
         IN  [i \in 1..Len(valid) |->
                [regex |-> re_compile(valid[i].k, TRUE), boost |-> valid[i].v]]
    /\ UNCHANGED <<fed, heap, documents, orig, before, result, outcome, runs>>

\* RegexBooster.__init__: every key is compiled, case-insensitively; the
\* first key that does not compile raises, and the attribute is never set.
Construct(mapping) ==
    /\ arg' = mapping
    /\ IF \A i \in 1..Len(mapping) : Compiles(mapping[i].k)
       THEN /\ comp' = "ready"
            /\ regex_boosts' =
                 [i \in 1..Len(mapping) |->
                    [regex |-> re_compile(mapping[i].k, TRUE), boost |-> mapping[i].v]]
       ELSE /\ comp' = "failed"
            /\ UNCHANGED regex_boosts
    /\ UNCHANGED <<fed, heap, documents, orig, before, result, outcome, runs>>

RegexBooster_init ==
    /\ comp = "none"
    /\ \E mapping \in Mappings : Construct(mapping)

\* The upstream component creates the documents and their list.
Produce(h, l) ==
    /\ fed' = TRUE
    /\ heap' = h
    /\ documents' = l
    /\ orig' = h
    /\ before' = h
    /\ UNCHANGED <<comp, arg, regex_boosts, result, outcome, runs>>

Retrieve ==
    /\ comp = "ready"
    /\ ~fed
    /\ \E n \in 0..MaxDocs : \E l \in DocLists(n) :
         \E h \in [1..NObj(l) -> Document] : Produce(h, l)

\* RegexBooster.run(documents).
run ==
    /\ comp = "ready"
    /\ fed
    /\ runs < MaxRuns
    /\ LET st == ForRules([heap |-> heap, raised |-> FALSE], regex_boosts, documents, 1)
       IN  /\ heap' = st.heap
           /\ outcome' = IF st.raised THEN "TypeError" ELSE "returned"
           /\ result' = IF st.raised THEN <<>> ELSE sorted(documents, st.heap)
    /\ before' = heap
    /\ runs' = runs + 1
    /\ UNCHANGED <<comp, arg, regex_boosts, fed, documents, orig>>

Next ==
    \/ RegexBooster_init
    \/ Retrieve
    \/ run

Spec == Init /\ [][Next]_vars

----------------------------------------------------------------------------
\* Vocabulary of the properties.

Objects == DOMAIN heap

\* The stored score, with 0 substituted for an absent one.
Effective(doc) == IF doc.score = None THEN Zero ELSE doc.score[1]

LessEq(a, b) == ~Less(b, a)

\* A pattern string with a group that is never closed.
Malformed(k) == \E i \in 1..Len(k) : k[i] = "("

\* The rules of the component whose pattern occurs in the content of o,
\* whatever the case of the letters.
Matching(o) ==
    { i \in 1..Len(regex_boosts) :
        /\ orig[o].content # None
        /\ LET text == orig[o].content[1]
               pat  == regex_boosts[i].regex.pattern
           IN  \E off \in 0..Len(text) :
                 /\ off + Len(pat) <= Len(text)
                 /\ \A n \in 1..Len(pat) : Lower(pat[n]) = Lower(text[off + n]) }

RECURSIVE Product(_)
Product(I) ==
    IF I = {} THEN One
    ELSE LET i == CHOOSE x \in I : TRUE
         IN  Mul(regex_boosts[i].boost, Product(I \ {i}))

RECURSIVE Power(_, _)
Power(a, k) == IF k = 0 THEN One ELSE Mul(a, Power(a, k - 1))

Count(l, o) == Cardinality({ i \in DOMAIN l : l[i] = o })

\* No document object occurs twice in the list handed to run().
Distinct == \A i, j \in DOMAIN documents : i # j => documents[i] # documents[j]

Descending(l) ==
    \A p, q \in DOMAIN l :
        p < q => LessEq(Effective(heap[l[q]]), Effective(heap[l[p]]))

Bijections(n) ==
    { f \in [1..n -> 1..n] : \A i, j \in 1..n : i # j => f[i] # f[j] }

----------------------------------------------------------------------------
\* C1: after one run(), every document that had a score s has the score
\* s times the product of the boosts of the rules that match its content
\* (s itself when no rule matches).  Stated for lists in which no document
\* occurs twice.
ScoreIsProductAfterOneRun ==
    (runs = 1 /\ Distinct) =>
        \A o \in Objects :
            orig[o].score # None =>
                heap[o].score = Some(Mul(orig[o].score[1], Product(Matching(o))))

\* C2: the returned list is in descending order of effective score, and
\* documents of equal effective score keep the order they had in the input.
SortedDescendingAndStable ==
    outcome = "returned" =>
        /\ Descending(result)
        /\ Len(result) = Len(documents)
        /\ \E f \in Bijections(Len(documents)) :
              /\ \A p \in DOMAIN result : result[p] = documents[f[p]]
              /\ \A p, q \in DOMAIN result :
                    (p < q /\ Effective(heap[result[p]]) = Effective(heap[result[q]]))
                        => f[p] < f[q]

StableTieReached ==
    /\ outcome = "returned"
    /\ Len(documents) = 2
    /\ documents[1] # documents[2]
    /\ heap # before
    /\ heap[documents[1]].score # heap[documents[2]].score
    /\ Effective(heap[documents[1]]) = Effective(heap[documents[2]])

\* C3: the returned list holds the same document objects as the input list,
\* each as many times as the input does.
OutputIsPermutation ==
    outcome = "returned" =>
        /\ Len(result) = Len(documents)
        /\ \A o \in Objects : Count(result, o) = Count(documents, o)

ReorderedOutputReached ==
    /\ outcome = "returned"
    /\ Len(documents) = MaxDocs
    /\ result # documents
    /\ \E o \in Objects : heap[o].score = None

\* C4: a document without a score still has none after run(), whatever
\* matches its content, and stands in the output where a score of 0 would.
AbsentScoreStaysAbsent ==
    outcome # "none" =>
        \A o \in Objects :
            before[o].score = None =>
                /\ heap[o].score = None
                /\ outcome = "returned" =>
                     \A p, q \in DOMAIN result :
                        /\ (p < q /\ result[q] = o) => LessEq(Zero, Effective(heap[result[p]]))
                        /\ (p < q /\ result[p] = o) => LessEq(Effective(heap[result[q]]), Zero)

AbsentScoreMatchedReached ==
    /\ outcome = "returned"
    /\ Len(result) = 2
    /\ \E o \in Objects :
          /\ orig[o].score = None
          /\ \E i \in Matching(o) : regex_boosts[i].boost # One
          /\ result[2] = o
          /\ Less(Zero, Effective(heap[result[1]]))
          /\ documents[1] = o

\* C5: run() does not raise when a document has no content.
RunNeverRaisesOnAbsentContent ==
    outcome # "TypeError"

\* C6: a mapping with a pattern that does not compile makes the constructor
\* fail: no rule set is stored, and no run() ever happens with it.
MalformedPatternFailsConstruction ==
    (comp # "none" /\ \E i \in DOMAIN arg : Malformed(arg[i].k)) =>
        /\ comp = "failed"
        /\ regex_boosts = <<>>
        /\ ~fed
        /\ runs = 0
        /\ outcome = "none"

MalformedAmongValidReached ==
    /\ comp = "failed"
    /\ Len(arg) > 1
    /\ ~Malformed(arg[1].k)

\* C7: a mapping with a boost that is not positive makes the constructor
\* fail.
NonPositiveBoostFailsConstruction ==
    (comp # "none" /\ \E i \in DOMAIN arg : LessEq(arg[i].v, Zero)) =>
        comp = "failed"

\* C8: run() leaves the rule set as the constructor built it, the content
\* of every document, and the score of every document that has no score or
\* that no rule matches.
OnlyMatchedScoresChange ==
    /\ comp = "ready" =>
          /\ Len(regex_boosts) = Len(arg)
          /\ \A i \in DOMAIN arg :
                /\ regex_boosts[i].regex.pattern = arg[i].k
                /\ regex_boosts[i].boost = arg[i].v
    /\ fed =>
          /\ DOMAIN heap = DOMAIN orig
          /\ \A o \in Objects :
                /\ heap[o].content = orig[o].content
                /\ (orig[o].score = None \/ Matching(o) = {}) =>
                      heap[o].score = orig[o].score

RepeatedRunsReached ==
    /\ runs = MaxRuns
    /\ outcome = "returned"
    /\ \E o \in Objects : heap[o].score # orig[o].score
    /\ \E o \in Objects :
          orig[o].score # None /\ orig[o].content # None /\ Matching(o) = {}

BoostsCompoundAcrossRuns ==
    (outcome # "none" /\ Distinct) =>
        /\ \A o \in Objects :
              orig[o].score # None =>
                  heap[o].score =
                      Some(Mul(orig[o].score[1], Power(Product(Matching(o)), runs)))
        /\ outcome = "returned" => Descending(result)

\* What C1 and C10 say does hold of the invocations that return.
CompoundWhenEveryRunReturns ==
    (outcome # "none" /\ Distinct /\ \A o \in Objects : orig[o].score = None \/ orig[o].content # None) =>
        /\ outcome = "returned"
        /\ \A o \in Objects :
              orig[o].score # None =>
                  heap[o].score =
                      Some(Mul(orig[o].score[1], Power(Product(Matching(o)), runs)))

====
